---- MODULE Spec2Model ----
(***************************************************************************)
(* Model of the modification-order cycle graph (src/cyclegraph.cc):        *)
(* CycleNode (edges, back_edges, hasRMW), CycleGraph (actionToNode,        *)
(* hasCycles, oldCycles, rollbackvector, rmwrollbackvector, discovered)    *)
(* and the operations addEdge, addRMWEdge, checkReachable, checkPromise,   *)
(* startChanges, commitChanges, rollbackChanges and checkForCycles.        *)
(***************************************************************************)
EXTENDS Integers, Sequences, FiniteSets, TLC

\* Number of distinct ModelAction identities the driver may refer to.
NumActions == 3

\* Number of mutating calls (addEdge, addRMWEdge, commit, rollback) explored.
MaxOps == 4

\* Number of mutating calls made before the queries are explored.
MaxQueryOps == 2

\* Number of threads the recorded actions belong to.
NumThreads == 3

\* The null CycleNode pointer.
NULL == 0

\* ModelAction identities; a CycleNode is identified with its action.
Actions == 1..NumActions

\* Thread identifiers.
Threads == 1..NumThreads

\* A Promise is known to the graph by eliminate_thread only: it is modelled
\* as the set of thread ids for which that predicate answers true.
Promises == SUBSET Threads

VARIABLES
  nodes,              \* actionToNode: the actions that have a CycleNode
  edges,              \* CycleNode::edges, per node, in insertion order
  back_edges,         \* CycleNode::back_edges, per node, in insertion order
  hasRMW,             \* CycleNode::hasRMW, per node (NULL when unset)
  hasCycles,          \* CycleGraph::hasCycles
  oldCycles,          \* CycleGraph::oldCycles
  rollbackvector,     \* CycleGraph::rollbackvector
  rmwrollbackvector,  \* CycleGraph::rmwrollbackvector
  discovered,         \* CycleGraph::discovered (the reused visited table)
  lastOp,             \* history: the call that produced this state
  clean,              \* history: the graph at the last commit or rollback
  nops,               \* history: number of calls made so far
  result,             \* history: how the last call ended and what it returned
  promiseArg          \* history: the promise given to the last checkPromise

vars == <<nodes, edges, back_edges, hasRMW, hasCycles, oldCycles,
          rollbackvector, rmwrollbackvector, discovered, lastOp, clean, nops,
          result, promiseArg>>

Range(s) == {s[i] : i \in 1..Len(s)}

(***************************************************************************)
(* CycleNode                                                               *)
(***************************************************************************)

\* CycleNode::addEdge with the duplicate scan left out.
NodeAddEdge_NoDedup(E, B, this, node) ==
  [ret |-> TRUE,
   edges |-> [E EXCEPT ![this] = Append(@, node)],
   back_edges |-> [B EXCEPT ![node] = Append(@, this)]]

\* CycleNode::addEdge with the back_edges push left out.
NodeAddEdge_NoBack(E, B, this, node) ==
  IF \E i \in 1..Len(E[this]) : E[this][i] = node
  THEN [ret |-> FALSE, edges |-> E, back_edges |-> B]
  ELSE [ret |-> TRUE,
        edges |-> [E EXCEPT ![this] = Append(@, node)],
        back_edges |-> B]

\* bool CycleNode::addEdge(CycleNode *node)
NodeAddEdge(E, B, this, node) ==
  IF \E i \in 1..Len(E[this]) : E[this][i] = node
  THEN [ret |-> FALSE, edges |-> E, back_edges |-> B]
  ELSE [ret |-> TRUE,
        edges |-> [E EXCEPT ![this] = Append(@, node)],
        back_edges |-> [B EXCEPT ![node] = Append(@, this)]]

\* vector_remove_node: erase the first element equal to n, if any.
vector_remove_node(v, n) ==
  IF \E i \in 1..Len(v) : v[i] = n
  THEN LET i == CHOOSE k \in 1..Len(v) :
                  v[k] = n /\ \A j \in 1..(k - 1) : v[j] # n
       IN SubSeq(v, 1, i - 1) \o SubSeq(v, i + 1, Len(v))
  ELSE v

\* CycleNode * CycleNode::removeEdge()
removeEdge(E, B, this) ==
  IF E[this] = <<>>
  THEN [ret |-> NULL, edges |-> E, back_edges |-> B]
  ELSE LET ret == E[this][Len(E[this])]
       IN [ret |-> ret,
           edges |-> [E EXCEPT ![this] = SubSeq(@, 1, Len(@) - 1)],
           back_edges |-> [B EXCEPT ![ret] = vector_remove_node(@, this)]]

\* CycleNode::popEdge (declared in cyclegraph.h): pop the most recently added
\* outgoing edge, repairing the back edge on the other endpoint.
popEdge(E, B, this) ==
  LET r == removeEdge(E, B, this)
  IN [edges |-> r.edges, back_edges |-> r.back_edges]

\* CycleNode::clearRMW (declared in cyclegraph.h): remove the RMW link.
clearRMW(R, this) ==
  [R EXCEPT ![this] = NULL]

\* CycleNode * CycleNode::getRMW() const
getRMW(R, this) ==
  R[this]

\* CycleNode::setRMW that stores the new reader whatever the old link was.
setRMW_Overwrite(R, this, node) ==
  [ret |-> R[this] # NULL, hasRMW |-> [R EXCEPT ![this] = node]]

\* CycleNode::setRMW that never reports an existing reader.
setRMW_NoDetect(R, this, node) ==
  [ret |-> FALSE, hasRMW |-> [R EXCEPT ![this] = node]]

\* bool CycleNode::setRMW(CycleNode *node)
setRMW(R, this, node) ==
  IF R[this] # NULL
  THEN [ret |-> TRUE, hasRMW |-> R]
  ELSE [ret |-> FALSE, hasRMW |-> [R EXCEPT ![this] = node]]

(***************************************************************************)
(* Reachability                                                            *)
(***************************************************************************)

\* The for loop of checkReachable: push every undiscovered successor.
RECURSIVE scanEdges(_, _, _, _)
scanEdges(es, i, queue, disc) ==
  IF i > Len(es)
  THEN [queue |-> queue, discovered |-> disc]
  ELSE IF es[i] \notin disc
       THEN scanEdges(es, i + 1, Append(queue, es[i]), disc \cup {es[i]})
       ELSE scanEdges(es, i + 1, queue, disc)

\* The while loop of checkReachable: pop the back of the queue, compare it
\* with the target, then scan its edges.  The field pushed lists, in order,
\* the nodes handed to queue.push_back.
RECURSIVE reachLoop(_, _, _, _)
reachLoop(E, queue, disc, to) ==
  IF queue = <<>>
  THEN [ret |-> FALSE, discovered |-> disc, pushed |-> <<>>]
  ELSE LET node == queue[Len(queue)]
           rest == SubSeq(queue, 1, Len(queue) - 1)
       IN IF node = to
          THEN [ret |-> TRUE, discovered |-> disc, pushed |-> <<>>]
          ELSE LET s == scanEdges(E[node], 1, rest, disc)
                   r == reachLoop(E, s.queue, s.discovered, to)
               IN [r EXCEPT !.pushed =
                     SubSeq(s.queue, Len(rest) + 1, Len(s.queue)) \o @]

\* checkReachable that looks at the direct successors of from only.
checkReachable_OneHop(E, from, to) ==
  [ret |-> (from = to) \/ (to \in Range(E[from])),
   discovered |-> {from} \cup Range(E[from]),
   pushed |-> <<from>>]

\* checkReachable without the discovered->put of the start node.
checkReachable_StartUnmarked(E, from, to) ==
  LET r == reachLoop(E, <<from>>, {}, to)
  IN [r EXCEPT !.pushed = <<from>> \o @]

\* bool CycleGraph::checkReachable(const CycleNode *from, const CycleNode *to)
checkReachable(E, from, to) ==
  LET r == reachLoop(E, <<from>>, {from}, to)
  IN [r EXCEPT !.pushed = <<from>> \o @]

\* bool CycleGraph::checkReachable(const ModelAction *from, const ModelAction *to)
checkReachableAct(N, E, from, to) ==
  IF from \notin N \/ to \notin N
  THEN FALSE
  ELSE checkReachable(E, from, to).ret

\* ModelAction::get_tid (action.h): the thread of an action.
get_tid(act) ==
  ((act - 1) % NumThreads) + 1

\* Promise::eliminate_thread (promise.h): a pure predicate on thread ids.
eliminate_thread(promise, tid) ==
  tid \in promise

\* HashTable::reset: empty the table.
reset(disc) ==
  {}

\* actionToNode.get: the node of an action, NULL when it has none.
actionToNodeGet(N, act) ==
  IF act \in N THEN act ELSE NULL

\* The while loop of checkPromise that tests the successors only, not the
\* node popped from the queue.
RECURSIVE promiseLoop_SkipPopped(_, _, _, _)
promiseLoop_SkipPopped(E, queue, disc, promise) ==
  IF queue = <<>>
  THEN [outcome |-> "returned", ret |-> FALSE, discovered |-> disc,
        pushed |-> <<>>]
  ELSE LET node == queue[Len(queue)]
           rest == SubSeq(queue, 1, Len(queue) - 1)
       IN IF node = NULL
          THEN [outcome |-> "undefined", ret |-> FALSE, discovered |-> disc,
                pushed |-> <<>>]
          ELSE IF \E i \in 1..Len(E[node]) :
                    eliminate_thread(promise, get_tid(E[node][i]))
               THEN [outcome |-> "returned", ret |-> TRUE,
                     discovered |-> disc, pushed |-> <<>>]
               ELSE LET s == scanEdges(E[node], 1, rest, disc)
                        r == promiseLoop_SkipPopped(E, s.queue, s.discovered,
                                                    promise)
                    IN [r EXCEPT !.pushed =
                          SubSeq(s.queue, Len(rest) + 1, Len(s.queue)) \o @]

\* The while loop of checkPromise: pop the back of the queue, ask the promise
\* about the thread of its action, then scan its edges.  Popping the null
\* pointer makes node->getAction() undefined behaviour.
RECURSIVE promiseLoop(_, _, _, _)
promiseLoop(E, queue, disc, promise) ==
  IF queue = <<>>
  THEN [outcome |-> "returned", ret |-> FALSE, discovered |-> disc,
        pushed |-> <<>>]
  ELSE LET node == queue[Len(queue)]
           rest == SubSeq(queue, 1, Len(queue) - 1)
       IN IF node = NULL
          THEN [outcome |-> "undefined", ret |-> FALSE, discovered |-> disc,
                pushed |-> <<>>]
          ELSE IF eliminate_thread(promise, get_tid(node))
               THEN [outcome |-> "returned", ret |-> TRUE,
                     discovered |-> disc, pushed |-> <<>>]
               ELSE LET s == scanEdges(E[node], 1, rest, disc)
                        r == promiseLoop(E, s.queue, s.discovered, promise)
                    IN [r EXCEPT !.pushed =
                          SubSeq(s.queue, Len(rest) + 1, Len(s.queue)) \o @]

\* checkPromise without the discovered->reset().
checkPromise_NoReset(N, E, disc0, fromact, promise) ==
  LET from == actionToNodeGet(N, fromact)
      r == promiseLoop(E, <<from>>, disc0 \cup {from}, promise)
  IN [r EXCEPT !.pushed = <<from>> \o @]

\* bool CycleGraph::checkPromise(const ModelAction *fromact, Promise *promise)
checkPromise(N, E, disc0, fromact, promise) ==
  LET from == actionToNodeGet(N, fromact)
      r == promiseLoop(E, <<from>>, reset(disc0) \cup {from}, promise)
  IN [r EXCEPT !.pushed = <<from>> \o @]

(***************************************************************************)
(* CycleGraph mutation.  g is the record of the mutable graph fields.      *)
(***************************************************************************)

\* The step with the cycle check left out.
checkAndInsert_NoCheck(g, src, dst) ==
  LET a == NodeAddEdge(g.edges, g.back_edges, src, dst)
  IN [g EXCEPT !.edges = a.edges,
               !.back_edges = a.back_edges,
               !.rollbackvector = IF a.ret THEN Append(@, src) ELSE @]

\* The step with the arguments of the cycle check exchanged.
checkAndInsert_Swapped(g, src, dst) ==
  LET c  == checkReachable(g.edges, src, dst)
      g1 == IF ~g.hasCycles
            THEN [g EXCEPT !.hasCycles = c.ret, !.discovered = c.discovered]
            ELSE g
      a  == NodeAddEdge(g1.edges, g1.back_edges, src, dst)
  IN [g1 EXCEPT !.edges = a.edges,
                !.back_edges = a.back_edges,
                !.rollbackvector = IF a.ret THEN Append(@, src) ELSE @]

\* The step with the "if (!hasCycles)" guard left out.
checkAndInsert_Unguarded(g, src, dst) ==
  LET c  == checkReachable(g.edges, dst, src)
      g1 == [g EXCEPT !.hasCycles = c.ret, !.discovered = c.discovered]
      a  == NodeAddEdge(g1.edges, g1.back_edges, src, dst)
  IN [g1 EXCEPT !.edges = a.edges,
                !.back_edges = a.back_edges,
                !.rollbackvector = IF a.ret THEN Append(@, src) ELSE @]

\* The step that logs the source node whether or not the edge is new.
checkAndInsert_LogAlways(g, src, dst) ==
  LET c  == checkReachable(g.edges, dst, src)
      g1 == IF ~g.hasCycles
            THEN [g EXCEPT !.hasCycles = c.ret, !.discovered = c.discovered]
            ELSE g
      a  == NodeAddEdge(g1.edges, g1.back_edges, src, dst)
  IN [g1 EXCEPT !.edges = a.edges,
                !.back_edges = a.back_edges,
                !.rollbackvector = Append(@, src)]

\* One "check, then insert and log" step of CycleGraph::addEdge.
checkAndInsert(g, src, dst) ==
  LET c  == checkReachable(g.edges, dst, src)
      g1 == IF ~g.hasCycles
            THEN [g EXCEPT !.hasCycles = c.ret, !.discovered = c.discovered]
            ELSE g
      a  == NodeAddEdge(g1.edges, g1.back_edges, src, dst)
  IN [g1 EXCEPT !.edges = a.edges,
                !.back_edges = a.back_edges,
                !.rollbackvector = IF a.ret THEN Append(@, src) ELSE @]

\* addEdge without the fusion step.
graphAddEdge_NoFusion(g, fromnode, tonode) ==
  checkAndInsert(g, fromnode, tonode)

\* addEdge whose fusion step inserts rmwnode->tonode without the cycle check.
graphAddEdge_FusionUnchecked(g, fromnode, tonode) ==
  LET g1 == checkAndInsert(g, fromnode, tonode)
      rmwnode == getRMW(g1.hasRMW, fromnode)
  IN IF rmwnode # NULL /\ rmwnode # tonode
     THEN checkAndInsert_NoCheck(g1, rmwnode, tonode)
     ELSE g1

\* void CycleGraph::addEdge(CycleNode *fromnode, CycleNode *tonode)
graphAddEdge(g, fromnode, tonode) ==
  LET g1 == checkAndInsert(g, fromnode, tonode)
      rmwnode == getRMW(g1.hasRMW, fromnode)
  IN IF rmwnode # NULL /\ rmwnode # tonode
     THEN checkAndInsert(g1, rmwnode, tonode)
     ELSE g1

\* addRMWEdge with the transfer loop left out.
transferEdges_None(g, fromnode, rmwnode, i) ==
  g

\* The transfer loop of CycleGraph::addRMWEdge.
RECURSIVE transferEdges(_, _, _, _)
transferEdges(g, fromnode, rmwnode, i) ==
  IF i > Len(g.edges[fromnode])
  THEN g
  ELSE LET tonode == g.edges[fromnode][i]
       IN IF tonode # rmwnode
          THEN LET a == NodeAddEdge(g.edges, g.back_edges, rmwnode, tonode)
               IN transferEdges(
                    [g EXCEPT !.edges = a.edges,
                              !.back_edges = a.back_edges,
                              !.rollbackvector =
                                 IF a.ret THEN Append(@, rmwnode) ELSE @],
                    fromnode, rmwnode, i + 1)
          ELSE transferEdges(g, fromnode, rmwnode, i + 1)

\* void CycleGraph::addRMWEdge, after both nodes are resolved.
graphAddRMWEdge(g, fromnode, rmwnode) ==
  LET s  == setRMW(g.hasRMW, fromnode, rmwnode)
      g1 == IF s.ret
            THEN [g EXCEPT !.hasRMW = s.hasRMW, !.hasCycles = TRUE]
            ELSE [g EXCEPT !.hasRMW = s.hasRMW,
                           !.rmwrollbackvector = Append(@, fromnode)]
      g2 == transferEdges(g1, fromnode, rmwnode, 1)
  IN graphAddEdge(g2, fromnode, rmwnode)

\* The entry the trace of pops gets when popEdge is called on node n.
Popped(g, n) ==
  [node |-> n,
   edge |-> IF g.edges[n] = <<>> THEN NULL ELSE g.edges[n][Len(g.edges[n])]]

\* The first loop of rollbackChanges run from the last log entry down.
RECURSIVE popLogged_Reverse(_, _, _)
popLogged_Reverse(g, v, i) ==
  IF i > Len(v)
  THEN g
  ELSE LET n == v[Len(v) + 1 - i]
           p == popEdge(g.edges, g.back_edges, n)
       IN popLogged_Reverse([g EXCEPT !.edges = p.edges,
                                      !.back_edges = p.back_edges,
                                      !.popped = Append(@, Popped(g, n))],
                            v, i + 1)

\* The first loop of rollbackChanges: popEdge on every logged node, from
\* index 0 upwards.  The field popped lists the pops in the order made.
RECURSIVE popLogged(_, _, _)
popLogged(g, v, i) ==
  IF i > Len(v)
  THEN g
  ELSE LET p == popEdge(g.edges, g.back_edges, v[i])
       IN popLogged([g EXCEPT !.edges = p.edges,
                              !.back_edges = p.back_edges,
                              !.popped = Append(@, Popped(g, v[i]))],
                    v, i + 1)

\* The second loop of rollbackChanges: clearRMW on every logged node.
RECURSIVE clearLogged(_, _, _)
clearLogged(g, v, i) ==
  IF i > Len(v)
  THEN g
  ELSE clearLogged([g EXCEPT !.hasRMW = clearRMW(@, v[i])], v, i + 1)

\* rollbackChanges with the clearRMW loop left out.
graphRollback_KeepRMW(g, old) ==
  LET g1 == popLogged(g, g.rollbackvector, 1)
  IN [g1 EXCEPT !.hasCycles = old,
                !.rollbackvector = <<>>,
                !.rmwrollbackvector = <<>>]

\* void CycleGraph::rollbackChanges()
graphRollback(g, old) ==
  LET g1 == popLogged(g, g.rollbackvector, 1)
      g2 == clearLogged(g1, g1.rmwrollbackvector, 1)
  IN [g2 EXCEPT !.hasCycles = old,
                !.rollbackvector = <<>>,
                !.rmwrollbackvector = <<>>]

(***************************************************************************)
(* State machine                                                           *)
(***************************************************************************)

\* The mutable graph fields of the current state.
G ==
  [edges |-> edges, back_edges |-> back_edges, hasRMW |-> hasRMW,
   hasCycles |-> hasCycles, rollbackvector |-> rollbackvector,
   rmwrollbackvector |-> rmwrollbackvector, discovered |-> discovered,
   popped |-> <<>>]

Snapshot(N, g) ==
  [nodes |-> N, edges |-> g.edges, hasRMW |-> g.hasRMW,
   hasCycles |-> g.hasCycles]

\* A call that returns nothing.
Void ==
  [outcome |-> "void", value |-> FALSE]

\* A call that returns the boolean b.
Returned(b) ==
  [outcome |-> "returned", value |-> b]

\* CycleGraph::CycleGraph()
Init ==
  /\ nodes = {}
  /\ edges = [n \in Actions |-> <<>>]
  /\ back_edges = [n \in Actions |-> <<>>]
  /\ hasRMW = [n \in Actions |-> NULL]
  /\ hasCycles = FALSE
  /\ oldCycles = FALSE
  /\ rollbackvector = <<>>
  /\ rmwrollbackvector = <<>>
  /\ discovered = {}
  /\ lastOp = [op |-> "init", from |-> NULL, to |-> NULL, rep |-> FALSE]
  /\ clean = [nodes |-> {}, edges |-> [n \in Actions |-> <<>>],
              hasRMW |-> [n \in Actions |-> NULL], hasCycles |-> FALSE]
  /\ nops = 0
  /\ result = Void
  /\ promiseArg = {}

Install(g) ==
  /\ edges' = g.edges
  /\ back_edges' = g.back_edges
  /\ hasRMW' = g.hasRMW
  /\ hasCycles' = g.hasCycles
  /\ rollbackvector' = g.rollbackvector
  /\ rmwrollbackvector' = g.rmwrollbackvector
  /\ discovered' = g.discovered

\* Identities are interchangeable, so the driver's actions are numbered in
\* the order of their first use: a call may name the actions that already
\* have a node and the next unused ones in increasing order.
InOrder(from, to) ==
  /\ from <= Cardinality(nodes) + 1
  /\ to <= Cardinality(nodes \cup {from}) + 1

\* What a build can do with the undefined behaviour of dereferencing the
\* null node: fault, or read garbage and return either answer.
UndefinedOutcomes ==
  {[outcome |-> "crash", value |-> FALSE], Returned(TRUE), Returned(FALSE)}

Call(name, from, to) ==
  [op |-> name, from |-> from, to |-> to,
   rep |-> lastOp.op = name /\ lastOp.from = from /\ lastOp.to = to]

\* void CycleGraph::addEdge(const ModelAction *from, const ModelAction *to)
AddEdge(from, to) ==
  /\ nops < MaxOps
  /\ InOrder(from, to)
  /\ nodes' = nodes \cup {from, to}
  /\ Install(graphAddEdge(G, from, to))
  /\ lastOp' = Call("addEdge", from, to)
  /\ nops' = nops + 1
  /\ result' = Void
  /\ promiseArg' = {}
  /\ UNCHANGED <<oldCycles, clean>>

\* void CycleGraph::addRMWEdge(const ModelAction *from, const ModelAction *rmw)
AddRMWEdge(from, rmw) ==
  /\ nops < MaxOps
  /\ InOrder(from, rmw)
  /\ nodes' = nodes \cup {from, rmw}
  /\ Install(graphAddRMWEdge(G, from, rmw))
  /\ lastOp' = Call("addRMWEdge", from, rmw)
  /\ nops' = nops + 1
  /\ result' = Void
  /\ promiseArg' = {}
  /\ UNCHANGED <<oldCycles, clean>>

\* commitChanges without the assignment to oldCycles.
CommitChanges_StaleCycles ==
  /\ nops < MaxOps
  /\ rollbackvector' = <<>>
  /\ rmwrollbackvector' = <<>>
  /\ lastOp' = Call("commit", NULL, NULL)
  /\ clean' = Snapshot(nodes, G)
  /\ nops' = nops + 1
  /\ result' = Void
  /\ promiseArg' = {}
  /\ UNCHANGED <<nodes, edges, back_edges, hasRMW, hasCycles, oldCycles,
                  discovered>>

\* void CycleGraph::commitChanges()
CommitChanges ==
  /\ nops < MaxOps
  /\ rollbackvector' = <<>>
  /\ rmwrollbackvector' = <<>>
  /\ oldCycles' = hasCycles
  /\ lastOp' = Call("commit", NULL, NULL)
  /\ clean' = Snapshot(nodes, G)
  /\ nops' = nops + 1
  /\ result' = Void
  /\ promiseArg' = {}
  /\ UNCHANGED <<nodes, edges, back_edges, hasRMW, hasCycles, discovered>>

\* void CycleGraph::rollbackChanges()
RollbackChanges ==
  /\ nops < MaxOps
  /\ Install(graphRollback(G, oldCycles))
  /\ lastOp' = Call("rollback", NULL, NULL)
  /\ clean' = Snapshot(nodes, graphRollback(G, oldCycles))
  /\ nops' = nops + 1
  /\ result' = Void
  /\ promiseArg' = {}
  /\ UNCHANGED <<nodes, oldCycles>>

Next ==
  \/ \E from, to \in Actions : AddEdge(from, to)
  \/ \E from, rmw \in Actions : AddRMWEdge(from, rmw)
  \/ CommitChanges
  \/ RollbackChanges

Spec == Init /\ [][Next]_vars

(***************************************************************************)
(* Queries.  A behaviour makes at most MaxQueryOps mutating calls and at   *)
(* most MaxQueryOps + 1 calls in all, so that a query follows every graph  *)
(* those calls can build.                                                  *)
(***************************************************************************)

\* bool CycleGraph::checkReachable(const ModelAction *, const ModelAction *)
QueryReachable(from, to) ==
  /\ discovered' = IF from \in nodes /\ to \in nodes
                   THEN checkReachable(edges, from, to).discovered
                   ELSE discovered
  /\ result' = Returned(checkReachableAct(nodes, edges, from, to))
  /\ lastOp' = Call("checkReachable", from, to)
  /\ promiseArg' = {}
  /\ nops' = nops + 1
  /\ UNCHANGED <<nodes, edges, back_edges, hasRMW, hasCycles, oldCycles,
                  rollbackvector, rmwrollbackvector, clean>>

\* bool CycleGraph::checkPromise(const ModelAction *fromact, Promise *promise)
QueryPromise(fromact, promise) ==
  LET r == checkPromise(nodes, edges, discovered, fromact, promise)
  IN /\ discovered' = r.discovered
     /\ IF r.outcome = "undefined"
        THEN result' \in UndefinedOutcomes
        ELSE result' = Returned(r.ret)
     /\ lastOp' = Call("checkPromise", fromact, NULL)
     /\ promiseArg' = promise
     /\ nops' = nops + 1
     /\ UNCHANGED <<nodes, edges, back_edges, hasRMW, hasCycles, oldCycles,
                     rollbackvector, rmwrollbackvector, clean>>

\* bool CycleGraph::checkForCycles() const
QueryCycles ==
  /\ result' = Returned(hasCycles)
  /\ lastOp' = Call("checkForCycles", NULL, NULL)
  /\ promiseArg' = {}
  /\ nops' = nops + 1
  /\ UNCHANGED <<nodes, edges, back_edges, hasRMW, hasCycles, oldCycles,
                  rollbackvector, rmwrollbackvector, discovered, clean>>

\* void CycleGraph::startChanges(): the three assertions hold, or the call
\* is not made.
StartChanges ==
  /\ rollbackvector = <<>>
  /\ rmwrollbackvector = <<>>
  /\ oldCycles = hasCycles
  /\ result' = Void
  /\ lastOp' = Call("startChanges", NULL, NULL)
  /\ promiseArg' = {}
  /\ nops' = nops + 1
  /\ UNCHANGED <<nodes, edges, back_edges, hasRMW, hasCycles, oldCycles,
                  rollbackvector, rmwrollbackvector, discovered, clean>>

\* The process has not faulted and may take a further call.
Running == result.outcome # "crash" /\ nops <= MaxQueryOps

\* The process may take a further mutating call.
Shallow == Running /\ nops < MaxQueryOps

NextQ ==
  \/ \E from, to \in Actions : Shallow /\ AddEdge(from, to)
  \/ \E from, rmw \in Actions : Shallow /\ AddRMWEdge(from, rmw)
  \/ Shallow /\ CommitChanges
  \/ Shallow /\ RollbackChanges
  \/ \E from, to \in Actions : Running /\ QueryReachable(from, to)
  \/ \E from \in Actions, promise \in Promises :
       Running /\ QueryPromise(from, promise)
  \/ Running /\ QueryCycles
  \/ Running /\ StartChanges

SpecQ == Init /\ [][NextQ]_vars

(***************************************************************************)
(* Properties                                                              *)
(***************************************************************************)

\* Reflexive-transitive closure of the edges relation, as a least fixpoint.
RECURSIVE ReachFrom(_, _)
ReachFrom(E, S) ==
  LET T == S \cup UNION {Range(E[n]) : n \in S}
  IN IF T = S THEN S ELSE ReachFrom(E, T)

Reaches(E, a, b) == b \in ReachFrom(E, {a})

\* The step is the call name(a, b).
IsCall(name, a, b) ==
  lastOp'.op = name /\ lastOp'.from = a /\ lastOp'.to = b

\* The mutable graph fields of the successor state.
GNext ==
  [edges |-> edges', back_edges |-> back_edges', hasRMW |-> hasRMW',
   hasCycles |-> hasCycles', rollbackvector |-> rollbackvector',
   rmwrollbackvector |-> rmwrollbackvector', discovered |-> discovered',
   popped |-> <<>>]

\* Edge a->b was inserted since the last clean state.
AddedSinceClean(a, b) ==
  b \in Range(edges[a]) /\ b \notin Range(clean.edges[a])

\* A rollback step restores edge lists, RMW links and hasCycles of the last
\* clean state.
RollbackRestores ==
  /\ edges' = clean.edges
  /\ hasRMW' = clean.hasRMW
  /\ hasCycles' = clean.hasCycles

\* After the rollback a fresh addEdge(a, b) inserts a->b and logs a first.
FreshAddLogs(a, b) ==
  LET r == graphAddEdge(GNext, a, b)
  IN /\ b \notin Range(edges'[a])
     /\ b \in Range(r.edges[a])
     /\ Len(r.rollbackvector) >= 1
     /\ r.rollbackvector[1] = a

\* C1 as stated: a rollback restores every edge list, RMW link and hasCycles
\* of the clean state the sequence started from, and for every edge A->B that
\* was added in the sequence reachableFromAction(A, B) is false afterwards if
\* it was false before, and a fresh addEdge(A, B) inserts and logs it again.
C1_RollbackExact_AsStated ==
  [][lastOp'.op = "rollback" =>
       /\ RollbackRestores
       /\ \A a, b \in Actions :
            AddedSinceClean(a, b) =>
              /\ (~checkReachableAct(clean.nodes, clean.edges, a, b)
                    => ~checkReachableAct(nodes', edges', a, b))
              /\ FreshAddLogs(a, b)]_vars

\* C1 amended: as above, with the reachability consequence for A # B only;
\* the node table is not rolled back, so for a self edge A->A the query
\* reachableFromAction(A, A) is true after the rollback.
C1_RollbackExact ==
  [][lastOp'.op = "rollback" =>
       /\ RollbackRestores
       /\ nodes' = nodes
       /\ \A a, b \in Actions :
            AddedSinceClean(a, b) =>
              /\ (a # b /\ ~checkReachableAct(clean.nodes, clean.edges, a, b)
                    => ~checkReachableAct(nodes', edges', a, b))
              /\ (a = b => checkReachableAct(nodes', edges', a, b))
              /\ FreshAddLogs(a, b)]_vars

\* A rollback has undone a non-empty sequence while a committed edge stays:
\* some node has lost all its edges and links, another edge is still there.
C1_Witness ==
  /\ lastOp.op = "rollback"
  /\ \E a, b, c \in nodes :
       /\ a # b /\ c \notin {a, b}
       /\ b \in Range(edges[a])
       /\ edges[c] = <<>> /\ back_edges[c] = <<>> /\ hasRMW[c] = NULL

\* C2: an addEdge(A, B) made when B already reaches A (A = B included) leaves
\* hasCycles true, and hasCycles then stays true over every step other than
\* a rollback, which sets it to the committed value.
C2_CycleDetected ==
  [][/\ \A a, b \in Actions :
          (IsCall("addEdge", a, b) /\ Reaches(edges, b, a)) => hasCycles'
     /\ (hasCycles /\ lastOp'.op # "rollback") => hasCycles'
     /\ (hasCycles /\ lastOp'.op = "rollback") => (hasCycles' = oldCycles)]_vars

\* addEdge(Z, X) has just closed the cycle X->Y->Z->X, with no RMW link set.
C2_Witness ==
  /\ lastOp.op = "addEdge"
  /\ hasCycles
  /\ \A n \in Actions : hasRMW[n] = NULL
  /\ \E y \in Actions :
       /\ y \notin {lastOp.from, lastOp.to}
       /\ lastOp.from # lastOp.to
       /\ edges[lastOp.to] = <<y>>
       /\ edges[y] = <<lastOp.from>>
       /\ edges[lastOp.from] = <<lastOp.to>>

\* C3 as stated: an addEdge(A, B) made with hasCycles false and B not
\* reaching A leaves hasCycles false, also when A has an RMW link.
C3_NoFalseCycle_AsStated ==
  [][\A a, b \in Actions :
       (IsCall("addEdge", a, b) /\ ~hasCycles /\ ~Reaches(edges, b, a))
         => ~hasCycles']_vars

\* C3 amended: an addEdge(A, B) made with hasCycles false, B not reaching A
\* and, when A has an RMW link to R # B, B not reaching R either, leaves
\* hasCycles false.
C3_NoFalseCycle ==
  [][\A a, b \in Actions :
       (/\ IsCall("addEdge", a, b)
        /\ ~hasCycles
        /\ ~Reaches(edges, b, a)
        /\ (hasRMW[a] \in {NULL, b} \/ ~Reaches(edges, b, hasRMW[a])))
         => ~hasCycles']_vars

\* addEdge(A, B) ran its fusion step (A's reader R # B got the new edge R->B,
\* logged after A) and hasCycles is still false.
C3_Witness ==
  /\ lastOp.op = "addEdge"
  /\ ~hasCycles
  /\ hasRMW[lastOp.from] \notin {NULL, lastOp.to}
  /\ Len(rollbackvector) >= 2
  /\ rollbackvector[Len(rollbackvector) - 1] = lastOp.from
  /\ rollbackvector[Len(rollbackvector)] = hasRMW[lastOp.from]
  /\ edges[hasRMW[lastOp.from]][Len(edges[hasRMW[lastOp.from]])] = lastOp.to

\* C4: in every reachable state b is in a.edges iff a is in b.back_edges.
C4_InverseConsistent ==
  \A a, b \in Actions :
    (b \in Range(edges[a])) <=> (a \in Range(back_edges[b]))

\* A rollback has removed the edges out of some node that keeps an incoming
\* committed edge, and a further node has been stripped of everything.
C4_Witness ==
  /\ lastOp.op = "rollback"
  /\ \E a, b \in nodes :
       /\ a # b
       /\ back_edges[b] = <<a>>
       /\ edges[b] = <<>>
       /\ \E c \in nodes \ {a, b} : edges[c] = <<>> /\ back_edges[c] = <<>>

\* No node holds two outgoing edges to the same target.
NoDuplicateEdge ==
  \A n \in Actions :
    \A i, j \in 1..Len(edges[n]) : edges[n][i] = edges[n][j] => i = j

\* C5: an addEdge(A, B) that repeats the call just made changes no edge list,
\* not hasCycles and neither log length; no node has a duplicate edge.
C5_IdempotentInsert ==
  /\ []NoDuplicateEdge
  /\ [][(lastOp'.op = "addEdge" /\ lastOp'.rep) =>
          /\ edges' = edges
          /\ hasCycles' = hasCycles
          /\ Len(rollbackvector') = Len(rollbackvector)
          /\ Len(rmwrollbackvector') = Len(rmwrollbackvector)]_vars

\* addEdge(A, B) was called twice in a row on a node A whose reader is not B,
\* with no cycle flagged.
C5_Witness ==
  /\ lastOp.op = "addEdge"
  /\ lastOp.rep
  /\ ~hasCycles
  /\ hasRMW[lastOp.from] \notin {NULL, lastOp.to}
  /\ lastOp.to \in Range(edges[lastOp.from])

\* C6: no addEdge, addRMWEdge or commit step lowers hasCycles; a rollback
\* sets it to oldCycles, which is the value it had at the last commit.
C6_Sticky ==
  [][/\ (hasCycles /\ ~hasCycles') => lastOp'.op = "rollback"
     /\ lastOp'.op = "rollback" =>
          (hasCycles' = oldCycles /\ oldCycles = clean.hasCycles)
     /\ lastOp'.op = "commit" =>
          (hasCycles' = hasCycles /\ oldCycles' = hasCycles)]_vars

\* A rollback has lowered hasCycles: the only node ever created is alone, so
\* the call that created it was a self edge or self RMW, which sets the flag.
C6_Witness ==
  /\ lastOp.op = "rollback"
  /\ ~hasCycles
  /\ Cardinality(nodes) = 1

\* C7: after addRMWEdge(from, rmw) every t # rmw that was in from.edges is in
\* rmw.edges and reachable from rmw, and rmw is in from.edges.
C7_FusionInherits ==
  [][\A f, r \in Actions :
       IsCall("addRMWEdge", f, r) =>
         /\ r \in Range(edges'[f])
         /\ \A t \in Range(edges[f]) \ {r} :
              /\ t \in Range(edges'[r])
              /\ checkReachableAct(nodes', edges', r, t)]_vars

\* addRMWEdge(W, R) was called when W->V existed: V precedes R in W.edges
\* and R now has the edge to V.
C7_Witness ==
  /\ lastOp.op = "addRMWEdge"
  /\ lastOp.from # lastOp.to
  /\ hasRMW[lastOp.from] = lastOp.to
  /\ \E v \in Actions \ {lastOp.from, lastOp.to} :
       /\ edges[lastOp.from] = <<v, lastOp.to>>
       /\ v \in Range(edges[lastOp.to])

\* C8: addRMWEdge(W, R2) on a node W linked to R1 # R2 leaves hasCycles true
\* and the RMW log as it was; on a node without a link it appends exactly W
\* to the RMW log and leaves hasCycles false unless it was true already or
\* the inserted edge W->R2 closes a cycle.
C8_UniqueReader ==
  [][\A w, r \in Actions :
       IsCall("addRMWEdge", w, r) =>
         /\ (hasRMW[w] \notin {NULL, r} =>
               /\ hasCycles'
               /\ rmwrollbackvector' = rmwrollbackvector)
         /\ (hasRMW[w] = NULL =>
               /\ rmwrollbackvector' = Append(rmwrollbackvector, w)
               /\ (~hasCycles /\ ~Reaches(edges', r, w)) => ~hasCycles')]_vars

\* A second addRMWEdge on W with another reader was flagged; W is in the RMW
\* log once, from the first call.
C8_Witness ==
  /\ lastOp.op = "addRMWEdge"
  /\ hasRMW[lastOp.from] \notin {NULL, lastOp.to}
  /\ hasCycles
  /\ ~oldCycles
  /\ rmwrollbackvector = <<lastOp.from>>

\* C9 as stated: addRMWEdge(W, R2) on a node W linked to R1 # R2 makes R2 the
\* link of W.
C9_Overwrite_AsStated ==
  [][\A w, r \in Actions :
       (IsCall("addRMWEdge", w, r) /\ hasRMW[w] \notin {NULL, r})
         => hasRMW'[w] = r]_vars

\* C9 amended: addRMWEdge(W, R2) on a node W linked to R1 # R2 leaves the
\* link R1 and the RMW log untouched; a rollback leaves every link as it was
\* at the last clean state, so it only keeps or clears a link.
C9_LinkKept ==
  [][/\ \A w, r \in Actions :
          (IsCall("addRMWEdge", w, r) /\ hasRMW[w] \notin {NULL, r}) =>
            /\ hasRMW'[w] = hasRMW[w]
            /\ rmwrollbackvector' = rmwrollbackvector
     /\ lastOp'.op = "rollback" =>
          \A w \in Actions :
            /\ hasRMW'[w] \in {NULL, hasRMW[w]}
            /\ hasRMW'[w] = clean.hasRMW[w]
            /\ (hasRMW'[w] = NULL) <=>
                 (hasRMW[w] = NULL \/ w \in Range(rmwrollbackvector))]_vars

\* addRMWEdge(W, R2) was called on a node whose link R1 # R2 was committed;
\* the fusion step has ordered R1 before R2.
C9_Witness ==
  /\ lastOp.op = "addRMWEdge"
  /\ hasRMW[lastOp.from] \notin {NULL, lastOp.to}
  /\ lastOp.from \notin Range(rmwrollbackvector)
  /\ lastOp.to \in Range(edges[hasRMW[lastOp.from]])

\* C10: checkReachable on actions is true iff both actions have nodes and the
\* second is in the reflexive-transitive closure of edges from the first.
C10_ReachableIffClosure ==
  \A a \in Actions :
    LET closure == ReachFrom(edges, {a})
    IN \A b \in Actions :
         checkReachableAct(nodes, edges, a, b)
           <=> (a \in nodes /\ b \in nodes /\ b \in closure)

\* The graph holds the cycle X->Y->Z->X: X reaches Z through Y only, and Z
\* reaches Y through X only.
C10_Witness ==
  \E x, y, z \in nodes :
    /\ x # y /\ y # z /\ x # z
    /\ edges[x] = <<y>> /\ edges[y] = <<z>> /\ edges[z] = <<x>>
    /\ checkReachableAct(nodes, edges, x, z)
    /\ checkReachableAct(nodes, edges, z, y)

\* The last call was a query.
IsQuery(op) ==
  op \in {"checkReachable", "checkPromise", "checkForCycles", "startChanges"}

\* A sequence names no node twice.
NoRepeat(q) ==
  \A i, j \in 1..Len(q) : q[i] = q[j] => i = j

\* C11: checkPromise called with an action that was never inserted completes
\* normally and returns false.
C11_AbsentPromiseReturnsFalse ==
  (lastOp.op = "checkPromise" /\ lastOp.from \notin nodes)
    => result = Returned(FALSE)

\* C12: checkPromise on an action that has a node returns true iff some node
\* in the reflexive-transitive closure of edges from it belongs to a thread
\* the promise excludes.
C12_PromiseIffReachableExcluded ==
  (lastOp.op = "checkPromise" /\ lastOp.from \in nodes)
    => result = Returned(\E n \in ReachFrom(edges, {lastOp.from}) :
                           eliminate_thread(promiseArg, get_tid(n)))

\* checkPromise answered true because of a node two edges away: the promise
\* excludes the thread of Z only, on the chain X->Y->Z.
C12_Witness ==
  /\ lastOp.op = "checkPromise"
  /\ result = Returned(TRUE)
  /\ \E y, z \in nodes :
       /\ edges[lastOp.from] = <<y>>
       /\ edges[y] = <<z>>
       /\ promiseArg = {get_tid(z)}
       /\ get_tid(z) \notin {get_tid(lastOp.from), get_tid(y)}

\* C16: on every reachable graph each traversal ends after pushing every
\* node at most once, hence after at most one push and one pop per node: so
\* for checkReachable between any two nodes and for checkPromise from any
\* action and with any promise (where an action without a node makes the
\* one pushed entry the null pointer).
C16_TraversalBounded ==
  /\ \A from, to \in nodes :
       LET r == checkReachable(edges, from, to)
       IN /\ NoRepeat(r.pushed)
          /\ Range(r.pushed) \subseteq nodes
          /\ Range(r.pushed) \subseteq r.discovered
  /\ \A from \in Actions, promise \in Promises :
       LET r == checkPromise(nodes, edges, discovered, from, promise)
       IN /\ NoRepeat(r.pushed)
          /\ Range(r.pushed) \subseteq nodes \cup {NULL}
          /\ Range(r.pushed) \subseteq r.discovered
          /\ r.outcome = "undefined" <=> from \notin nodes

\* checkPromise walked a two-node cycle X->Y->X to the end, found nothing
\* and left both nodes in the visited table.
C16_Witness ==
  /\ lastOp.op = "checkPromise"
  /\ result = Returned(FALSE)
  /\ \E y \in nodes :
       /\ y # lastOp.from
       /\ y \in Range(edges[lastOp.from])
       /\ lastOp.from \in Range(edges[y])
       /\ discovered = {lastOp.from, y}

\* The results checkPromise can give on the current graph when it starts
\* with an empty visited table.
FreshPromiseResults(from, promise) ==
  LET r == checkPromise(nodes, edges, {}, from, promise)
  IN IF r.outcome = "undefined" THEN UndefinedOutcomes ELSE {Returned(r.ret)}

\* C17: reachableFromAction, canEliminate, checkForCycles and startChanges
\* change neither the node table, nor any edge list, back-edge list or RMW
\* link, nor hasCycles, oldCycles or the logs; and a query's answer is the
\* one the graph alone determines, whatever queries came before.
C17_QueriesReadOnly ==
  [][IsQuery(lastOp'.op) =>
       /\ UNCHANGED <<nodes, edges, back_edges, hasRMW, hasCycles, oldCycles,
                      rollbackvector, rmwrollbackvector>>
       /\ lastOp'.op = "checkReachable" =>
            result' = Returned(/\ lastOp'.from \in nodes
                               /\ lastOp'.to \in nodes
                               /\ Reaches(edges, lastOp'.from, lastOp'.to))
       /\ lastOp'.op = "checkPromise" =>
            result' \in FreshPromiseResults(lastOp'.from, promiseArg')
       /\ lastOp'.op = "checkForCycles" => result' = Returned(hasCycles)]_vars

\* checkPromise was called twice in a row on an action of a dirty graph; the
\* second call found a successor the first one had left in the visited table.
C17_Witness ==
  /\ lastOp.op = "checkPromise"
  /\ lastOp.rep
  /\ rollbackvector # <<>>
  /\ result = Returned(TRUE)
  /\ ~eliminate_thread(promiseArg, get_tid(lastOp.from))
  /\ \E a \in Actions : a \notin nodes

\* C13: a commit step changes no edge list, back-edge list, RMW link or
\* hasCycles; it empties both logs and sets oldCycles to hasCycles.  A later
\* rollback step keeps every edge and RMW link of the most recent commit,
\* restores hasCycles to its value at that commit, and leaves the committed
\* state the reference for the next rollback.
C13_CommitPermanent ==
  [][ /\ lastOp'.op = "commit" =>
           /\ UNCHANGED <<nodes, edges, back_edges, hasRMW, hasCycles>>
           /\ rollbackvector' = <<>>
           /\ rmwrollbackvector' = <<>>
           /\ oldCycles' = hasCycles
           /\ clean' = Snapshot(nodes, G)
      /\ lastOp'.op = "rollback" =>
           /\ \A n \in Actions :
                 /\ Range(clean.edges[n]) \subseteq Range(edges'[n])
                 /\ clean.hasRMW[n] # NULL => hasRMW'[n] = clean.hasRMW[n]
           /\ hasCycles' = clean.hasCycles
           /\ hasCycles' = oldCycles
           /\ clean'.edges = clean.edges
           /\ clean'.hasRMW = clean.hasRMW
           /\ clean'.hasCycles = clean.hasCycles
    ]_vars

\* A rollback has acted after a commit: a committed RMW link, its edge and a
\* committed cycle flag survive, while a node added after the commit is bare.
C13_Witness ==
  /\ lastOp.op = "rollback"
  /\ hasCycles
  /\ \E f \in nodes : hasRMW[f] # NULL /\ hasRMW[f] \in Range(edges[f])
  /\ \E n \in nodes : edges[n] = <<>> /\ back_edges[n] = <<>>

\* Edge lists E with a->b appended unless a already has it.
WithEdge(E, a, b) ==
  IF b \in Range(E[a]) THEN E ELSE [E EXCEPT ![a] = Append(@, b)]

\* Log v with an entry for a appended when a->b is new in E.
WithLog(v, E, a, b) ==
  IF b \in Range(E[a]) THEN v ELSE Append(v, a)

\* C14: for every call addEdge(from, to) where from has an RMW link to a node
\* R other than to, on return R has an edge to to, logged when newly inserted,
\* and hasCycles is true on return if it was still false after the from->to
\* step and to reaches R in the graph that already holds from->to; when from
\* has no RMW link, or its link is to or from itself, no edge other than
\* from->to is inserted.
C14_FusionStep ==
  [][ \A f, t \in Actions : IsCall("addEdge", f, t) =>
        LET R    == IF f \in nodes THEN hasRMW[f] ELSE NULL
            E1   == WithEdge(edges, f, t)
            v1   == WithLog(rollbackvector, edges, f, t)
            cyc1 == hasCycles \/ (f \in nodes /\ t \in nodes /\ Reaches(edges, t, f))
                      \/ f = t
        IN /\ (R # NULL /\ R # t) =>
                /\ t \in Range(edges'[R])
                /\ edges' = WithEdge(E1, R, t)
                /\ rollbackvector' = WithLog(v1, E1, R, t)
                /\ (~cyc1 /\ Reaches(E1, t, R)) => hasCycles'
           /\ (R = NULL \/ R = t \/ R = f) =>
                /\ edges' = E1
                /\ rollbackvector' = v1
    ]_vars

\* addEdge(f, t) has acted on a node f fused with a third node R: the call
\* logged f and then R, and the cycle R->t->R was found by the fusion step
\* alone, since t does not reach f.
C14_Witness ==
  /\ lastOp.op = "addEdge"
  /\ nops = 3
  /\ hasCycles
  /\ LET f == lastOp.from
         t == lastOp.to
         R == hasRMW[lastOp.from]
     IN /\ R \notin {NULL, f, t}
        /\ edges[f] = <<R, t>>
        /\ edges[R] = <<t>>
        /\ edges[t] = <<R>>
        /\ ~Reaches(edges, t, f)
        /\ Len(rollbackvector) >= 2
        /\ SubSeq(rollbackvector, Len(rollbackvector) - 1, Len(rollbackvector))
             = <<f, R>>

\* The pops made by a rollback of the current state, in the order made.
RollbackPops ==
  graphRollback(G, oldCycles).popped

\* The number of entries of sequence q equal to n.
RECURSIVE Count(_, _)
Count(q, n) ==
  IF q = <<>> THEN 0
  ELSE (IF Head(q) = n THEN 1 ELSE 0) + Count(Tail(q), n)

\* Every pop takes the edge then last in its node's list, and the pops remove
\* exactly the edges inserted since the last commit, each once.
PopsUndoInsertions ==
  LET t == RollbackPops
  IN /\ Len(t) = Len(rollbackvector)
     /\ \A j \in 1..Len(t) :
           LET n == t[j].node
               k == Count([i \in 1..(j - 1) |-> t[i].node], n)
           IN /\ k < Len(edges[n])
              /\ t[j].edge = edges[n][Len(edges[n]) - k]
     /\ {<<t[j].node, t[j].edge>> : j \in 1..Len(t)}
          = {<<a, b>> \in Actions \X Actions : AddedSinceClean(a, b)}
     /\ NoRepeat([j \in 1..Len(t) |-> <<t[j].node, t[j].edge>>])
     /\ edges' = clean.edges

\* C15 as stated: a rollback step visits the edge log in reverse insertion
\* order, the node logged last being popped first, each pop taking the node's
\* most recently added edge, and removes exactly the edges inserted since the
\* last commit, each once.
C15_RollbackOrder_AsStated ==
  [][ lastOp'.op = "rollback" =>
        /\ \A j \in 1..Len(RollbackPops) :
              RollbackPops[j].node
                = rollbackvector[Len(rollbackvector) + 1 - j]
        /\ PopsUndoInsertions
    ]_vars

\* C15: a rollback step visits the edge log in insertion order, the node
\* logged first being popped first, each pop taking the node's most recently
\* added edge, and removes exactly the edges inserted since the last commit,
\* each once.
C15_RollbackOrder ==
  [][ lastOp'.op = "rollback" =>
        /\ \A j \in 1..Len(RollbackPops) :
              RollbackPops[j].node = rollbackvector[j]
        /\ PopsUndoInsertions
    ]_vars

\* A rollback has undone 1->2 and then 2->1: the two nodes are bare, and
\* the set left by the last reachability check, run from node 1 for the
\* second insertion, holds both, so the log was <<1, 2>>.
C15_Witness ==
  /\ lastOp.op = "rollback"
  /\ nops = 3
  /\ Cardinality(nodes) = 2
  /\ discovered = nodes
  /\ \A n \in nodes : edges[n] = <<>> /\ back_edges[n] = <<>>
  /\ ~hasCycles

\* No node of E reaches itself through one or more edges.
Acyclic(E) ==
  \A n \in Actions : n \notin ReachFrom(E, Range(E[n]))

\* The flag does not miss a cycle of the current graph.
FlagSound ==
  ~hasCycles => Acyclic(edges)

\* The flag of the last clean state did not miss a cycle of that state.
CleanFlagSound ==
  ~clean.hasCycles => Acyclic(clean.edges)

\* The usage addRMWEdge(from, rmw) relies on: rmw has no incoming edge yet,
\* or from has no outgoing edge yet.
FusedAsNew(from, rmw) ==
  \/ \A m \in Actions : rmw \notin Range(edges[m])
  \/ edges[from] = <<>>

\* C18 as stated: in every reachable state, if hasCycles is false the graph
\* of all edge lists is acyclic.
C18_FlagSound_AsStated ==
  FlagSound

\* C18: every step that is not an addRMWEdge(from, rmw) made while rmw has
\* an incoming edge and from has an outgoing edge keeps the flag sound: if
\* hasCycles is false only when the graph is acyclic before the step, for the
\* current and the last clean state, the same holds after it.
C18_FlagSound ==
  [][ ( /\ FlagSound
        /\ CleanFlagSound
        /\ \A f, r \in Actions :
              IsCall("addRMWEdge", f, r) => FusedAsNew(f, r) )
      => (FlagSound' /\ CleanFlagSound')
    ]_vars

\* addRMWEdge(f, r) has acted on a new node r and a node f with an outgoing
\* edge: the edge was transferred to r without a check, hasCycles is false
\* and the graph is acyclic.
C18_Witness ==
  /\ lastOp.op = "addRMWEdge"
  /\ ~hasCycles
  /\ Acyclic(edges)
  /\ LET f == lastOp.from
         r == lastOp.to
     IN /\ f # r
        /\ hasRMW[f] = r
        /\ Len(edges[f]) = 2
        /\ edges[r] = <<edges[f][1]>>
        /\ \A m \in Actions \ {f} : r \notin Range(edges[m])
        /\ r \notin clean.nodes

\* C19: in every reachable state, a node f with an RMW link to r has r among
\* its edges, and every other target of f is also a target of r.
C19_RMWInheritance ==
  \A f \in Actions :
    hasRMW[f] # NULL =>
      /\ hasRMW[f] \in Range(edges[f])
      /\ \A t \in Range(edges[f]) \ {hasRMW[f]} : t \in Range(edges[hasRMW[f]])

\* C20: in every reachable state, every node n occurs in the edge log at most
\* as often as it has edges, the edges of n below its last that-many are
\* exactly its edges at the last commit, the RMW log names no node twice, and
\* every node in the RMW log has an RMW link.
C20_LogsWellFormed ==
  /\ \A n \in Actions :
       LET k == Count(rollbackvector, n)
       IN /\ k <= Len(edges[n])
          /\ SubSeq(edges[n], 1, Len(edges[n]) - k) = clean.edges[n]
  /\ NoRepeat(rmwrollbackvector)
  /\ \A n \in Range(rmwrollbackvector) : hasRMW[n] # NULL

\* A node is in the edge log twice on top of a committed edge, and the RMW
\* log is not empty.
C20_Witness ==
  /\ rmwrollbackvector # <<>>
  /\ \E n \in nodes :
       /\ Count(rollbackvector, n) = 2
       /\ clean.edges[n] # <<>>
       /\ Len(edges[n]) = Len(clean.edges[n]) + 2

====
